---- MODULE Spec2Model ----
(***************************************************************************)
(* Model of the JOE tracker's opening-count extractor                      *)
(* (extract_position_count) and weekly cumulative aggregator               *)
(* (analyze_date_fields, create_weekly_cumulative) of                      *)
(* src/process_xls_with_openings.py.                                       *)
(*                                                                         *)
(* Text is a sequence of one-character strings.  Regular expressions are   *)
(* sequences of atoms matched by a backtracking matcher that follows       *)
(* Python's re.search: leftmost start, alternatives in order, greedy       *)
(* quantifiers.                                                            *)
(***************************************************************************)
EXTENDS Integers, Sequences, FiniteSets, TLC

VARIABLES
    pc,           \* position of the driver in the run being modelled
    title,        \* cell jp_title of the row given to extract_position_count
    body,         \* cell jp_full_text of the row
    body2,        \* cell jp_full_text of a second row with the same title
    count,        \* extract_position_count of (title, body)
    count2,       \* extract_position_count of (title, body2)
    df,           \* the data frame of the pipeline: a sequence of rows
    weekly_data,  \* result of create_weekly_cumulative: academic year -> series
    found,        \* whether glob found at least one .xlsx file
    error,        \* the exception that ended the run, "none" when none
    site,         \* return value of generate_data_json
    plot,         \* what a dashboard's plot function was given and drew
    joe_data,         \* the file docs/joe_data.json
    existing_data,    \* update_current_year_only: the data it loaded
    current_date,     \* update_current_year_only: datetime.now()
    current_year,     \* update_current_year_only: the year it overwrites
    files,            \* the Excel files of joe_data/: name -> content hash
    monitor_state,    \* the file joe_data/monitor_state.json
    state,            \* check_for_updates: the state it loaded
    current_hashes,   \* check_for_updates: the hashes it computed
    has_changes,      \* check_for_updates: its return value
    checks,           \* checks made since the files last changed
    now,              \* the day of datetime.now() of JOEDataUpdater
    metadata,         \* the file joe_data/metadata.json
    time,             \* time.time() of the scraper's machine
    temp_download_dir, \* the browser's download folder: name -> st_mtime
    start_time,       \* wait_for_download: start_time
    existing_files,   \* wait_for_download: existing_files
    downloaded_file   \* what wait_for_download returned

\* The variables of update_current_year_only, JOEDataMonitor,
\* JOEDataUpdater and JOEWorkingScraper
update_vars == <<joe_data, existing_data, current_date, current_year>>
monitor_vars == <<files, monitor_state, state, current_hashes, has_changes,
                  checks>>
updater_vars == <<now, metadata>>
scraper_vars == <<time, temp_download_dir, start_time, existing_files,
                  downloaded_file>>
later_vars == <<update_vars, monitor_vars, updater_vars, scraper_vars>>

\* The variables of the processing pipeline and the dashboards
pipeline_vars == <<pc, title, body, body2, count, count2, df, weekly_data,
                   found, error, site, plot>>

vars == <<pc, title, body, body2, count, count2, df, weekly_data,
          found, error, site, plot, later_vars>>

\* Python's None, and a dict without keys
None == <<>>

\* Before update_current_year_only ran: no joe_data.json, nothing loaded
InitUpdateVars ==
    /\ joe_data = [kind |-> "absent"]
    /\ existing_data = None
    /\ current_date = <<2025, 8, 1>>
    /\ current_year = 0

\* A fresh joe_data/ directory: no Excel file, no monitor_state.json
InitMonitorVars ==
    /\ files = <<>>
    /\ monitor_state = [exists |-> FALSE, file_hashes |-> <<>>,
                        last_update |-> FALSE]
    /\ state = None
    /\ current_hashes = <<>>
    /\ has_changes = FALSE
    /\ checks = 0

\* Day 0, no metadata.json
InitUpdaterVars ==
    /\ now = 0
    /\ metadata = [exists |-> FALSE, last_update |-> -1,
                   update_history |-> <<>>]

\* An empty download folder, wait_for_download not yet called
InitScraperVars ==
    /\ time = 0
    /\ temp_download_dir = <<>>
    /\ start_time = 0
    /\ existing_files = {}
    /\ downloaded_file = "none"

InitLater ==
    /\ InitUpdateVars
    /\ InitMonitorVars
    /\ InitUpdaterVars
    /\ InitScraperVars

Min(a, b) == IF a <= b THEN a ELSE b

----------------------------------------------------------------------------
(* Character sequences of the literals in the patterns. *)
S_nan == <<"n", "a", "n">>
S_two == <<"t", "w", "o">>
S_three == <<"t", "h", "r", "e", "e">>
S_four == <<"f", "o", "u", "r">>
S_five == <<"f", "i", "v", "e">>
S_six == <<"s", "i", "x">>
S_several == <<"s", "e", "v", "e", "r", "a", "l">>
S_multiple == <<"m", "u", "l", "t", "i", "p", "l", "e">>
S_lparen == <<"(">>
S_rparen == <<")">>
S_position == <<" ", "p", "o", "s", "i", "t", "i", "o", "n">>
S_tenure == <<" ", "t", "e", "n", "u", "r", "e">>
S_track_position == <<"t", "r", "a", "c", "k", " ", "p", "o", "s", "i", "t", "i", "o", "n">>
S_we_are == <<"w", "e", " ", "a", "r", "e", " ">>
S_we_have == <<"w", "e", " ", "h", "a", "v", "e", " ">>
S_openings == <<" ", "o", "p", "e", "n", "i", "n", "g", "s">>
S_positions == <<" ", "p", "o", "s", "i", "t", "i", "o", "n", "s">>
S_vacancies == <<" ", "v", "a", "c", "a", "n", "c", "i", "e", "s">>
S_hiring == <<"h", "i", "r", "i", "n", "g", " ">>
S_assistant == <<" ", "a", "s", "s", "i", "s", "t", "a", "n", "t">>
S_associate == <<" ", "a", "s", "s", "o", "c", "i", "a", "t", "e">>
S_full == <<" ", "f", "u", "l", "l">>
S_invites == <<"i", "n", "v", "i", "t", "e", "s", " ", "a", "p", "p", "l", "i", "c", "a", "t", "i", "o", "n", "s", " ", "f", "o", "r", " ">>
S_we_seek == <<"w", "e", " ", "s", "e", "e", "k", " ">>
S_recruiting == <<"r", "e", "c", "r", "u", "i", "t", "i", "n", "g", " ">>

\* "(4 positions)"
T_paren4 == <<"(", "4", " ", "p", "o", "s", "i", "t", "i", "o", "n", "s", ")">>
\* "99 positions"
T_99 == <<"9", "9", " ", "p", "o", "s", "i", "t", "i", "o", "n", "s">>
\* "2 Tenure-Track positions"
T_2tt == <<"2", " ", "T", "e", "n", "u", "r", "e", "-", "T", "r", "a", "c", "k", " ", "p", "o", "s", "i", "t", "i", "o", "n", "s">>
\* "0 positions"
T_0 == <<"0", " ", "p", "o", "s", "i", "t", "i", "o", "n", "s">>
\* "two "
T_two == <<"t", "w", "o", " ">>
\* "Three "
T_Three == <<"T", "h", "r", "e", "e", " ">>
\* "four "
T_four == <<"f", "o", "u", "r", " ">>
\* "five "
T_five == <<"f", "i", "v", "e", " ">>
\* "six "
T_six == <<"s", "i", "x", " ">>
\* "several "
T_several == <<"s", "e", "v", "e", "r", "a", "l", " ">>
\* "multiple "
T_multiple == <<"m", "u", "l", "t", "i", "p", "l", "e", " ">>
\* "x"
T_x == <<"x">>
\* "4"
T_4 == <<"4">>
\* "We are 3 openings"
B_we_are_3 == <<"W", "e", " ", "a", "r", "e", " ", "3", " ", "o", "p", "e", "n", "i", "n", "g", "s">>
\* "we have two"
B_we_have_two == <<"w", "e", " ", "h", "a", "v", "e", " ", "t", "w", "o">>
\* "we are five"
B_we_are_five == <<"w", "e", " ", "a", "r", "e", " ", "f", "i", "v", "e">>
\* "recruiting 12"
B_recruiting12 == <<"r", "e", "c", "r", "u", "i", "t", "i", "n", "g", " ", "1", "2">>
\* " 2 tenure track position"
B_2tt == <<" ", "2", " ", "t", "e", "n", "u", "r", "e", " ", "t", "r", "a", "c", "k", " ", "p", "o", "s", "i", "t", "i", "o", "n">>
\* " "
B_sp == <<" ">>

----------------------------------------------------------------------------
(* Cells and str().  A cell holds text, is NaN (empty spreadsheet cell) or  *)
(* its column is absent from the row.                                       *)

Text(s) == [kind |-> "str", s |-> s]
NaN == [kind |-> "nan", s |-> <<>>]
Absent == [kind |-> "absent", s |-> <<>>]

\* str(row.get(col, '')): the default '' for an absent column, 'nan' for NaN.
Str(cell) ==
    CASE cell.kind = "str" -> cell.s
      [] cell.kind = "nan" -> S_nan
      [] OTHER -> <<>>

UpperChars == <<"A", "B", "C", "D", "E", "F", "G", "H", "I", "J", "K", "L", "M", "N", "O", "P", "Q", "R", "S", "T", "U", "V", "W", "X", "Y", "Z">>

LowerChars == <<"a", "b", "c", "d", "e", "f", "g", "h", "i", "j", "k", "l", "m", "n", "o", "p", "q", "r", "s", "t", "u", "v", "w", "x", "y", "z">>

UpperToLower ==
    [c \in {UpperChars[i] : i \in 1..Len(UpperChars)} |->
        LowerChars[CHOOSE i \in 1..Len(UpperChars) : UpperChars[i] = c]]

\* str.lower()
lower(s) ==
    <<>> \o [i \in 1..Len(s) |->
                IF s[i] \in DOMAIN UpperToLower THEN UpperToLower[s[i]] ELSE s[i]]

\* s[:n]
Slice(s, n) == SubSeq(s, 1, Min(n, Len(s)))

----------------------------------------------------------------------------
(* Regular expressions. *)

DigitChars == {"0", "1", "2", "3", "4", "5", "6", "7", "8", "9"}

DigitValue ==
    [c \in DigitChars |->
        CASE c = "0" -> 0 [] c = "1" -> 1 [] c = "2" -> 2 [] c = "3" -> 3
          [] c = "4" -> 4 [] c = "5" -> 5 [] c = "6" -> 6 [] c = "7" -> 7
          [] c = "8" -> 8 [] OTHER -> 9]

LetterChars ==
    {"a", "b", "c", "d", "e", "f", "g", "h", "i", "j", "k", "l", "m",
     "n", "o", "p", "q", "r", "s", "t", "u", "v", "w", "x", "y", "z"}

\* \w on lower-cased text
IsWordChar(c) == c \in LetterChars \cup DigitChars \cup {"_"}

\* An atom: a character class with a repetition range, or the assertion \b.
Lit(w) ==
    <<>> \o [i \in 1..Len(w) |->
                [t |-> "set", cs |-> {w[i]}, lo |-> 1, many |-> FALSE]]
Digits == <<[t |-> "set", cs |-> DigitChars, lo |-> 1, many |-> TRUE]>>
Opt(cs) == <<[t |-> "set", cs |-> cs, lo |-> 0, many |-> FALSE]>>
WordEdge == <<[t |-> "wb", cs |-> {}, lo |-> 0, many |-> FALSE]>>

\* The characters a match of atoms can start with: the class of the first
\* consuming atom (every pattern of the program starts with a literal or \d+,
\* after an optional \b).
FirstSet(atoms) == atoms[CHOOSE k \in 1..Len(atoms) :
                            /\ atoms[k].t = "set"
                            /\ \A j \in 1..(k - 1) : atoms[j].t # "set"].cs

\* One alternative of a pattern; grp is the index of the atom that is group 1
\* (0: no group).
Alt(atoms, grp) == [atoms |-> atoms, grp |-> grp, first |-> FirstSet(atoms)]

\* \bword\b
Word(w) == <<Alt(WordEdge \o Lit(w) \o WordEdge, 0)>>

\* \b at position i (the next character to read is text[i])
AtWordEdge(text, i) ==
    LET before == i > 1 /\ IsWordChar(text[i - 1])
        after == i <= Len(text) /\ IsWordChar(text[i])
    IN before # after

\* Number of consecutive characters of class cs from position i
RECURSIVE RunLen(_, _, _)
RunLen(text, i, cs) ==
    IF i <= Len(text) /\ text[i] \in cs THEN 1 + RunLen(text, i + 1, cs) ELSE 0

\* Whether atoms k.. match text from position i
RECURSIVE MatchFrom(_, _, _, _)
MatchFrom(atoms, k, text, i) ==
    IF k > Len(atoms) THEN TRUE
    ELSE LET a == atoms[k] IN
        IF a.t = "wb" THEN AtWordEdge(text, i) /\ MatchFrom(atoms, k + 1, text, i)
        ELSE LET run == RunLen(text, i, a.cs)
                 hi == IF a.many THEN run ELSE Min(1, run)
             IN \E n \in a.lo..hi : MatchFrom(atoms, k + 1, text, i + n)

AltMatchesAt(alt, text, s) ==
    s <= Len(text) /\ text[s] \in alt.first /\ MatchFrom(alt.atoms, 1, text, s)

\* The positions of text at which some pattern of the list can start
StartPositions(patterns, text) ==
    LET firsts == UNION {UNION {patterns[k].re[a].first : a \in 1..Len(patterns[k].re)} :
                            k \in 1..Len(patterns)}
    IN {s \in 1..Len(text) : text[s] \in firsts}

\* re.search(pattern, text), tried at the positions cands in increasing
\* order: the leftmost start of a match, 0 when none
SearchIn(alts, text, cands) ==
    LET starts == {s \in cands :
                      \E a \in 1..Len(alts) : AltMatchesAt(alts[a], text, s)}
    IN IF starts = {} THEN 0
       ELSE CHOOSE s \in starts : \A u \in starts : s <= u

\* re.search(pattern, text)
Search(alts, text) == SearchIn(alts, text, 1..Len(text))

\* The alternative the matcher takes at start s: the first that matches
TakenAlt(alts, text, s) ==
    alts[CHOOSE a \in 1..Len(alts) :
            /\ AltMatchesAt(alts[a], text, s)
            /\ \A b \in 1..(a - 1) : ~AltMatchesAt(alts[b], text, s)]

\* match.group(1): the atoms before the group are single characters; the
\* group is greedy, so it is the longest run after which the rest matches.
Group1(alts, text, s) ==
    LET alt == TakenAlt(alts, text, s)
        g == s + alt.grp - 1
        run == RunLen(text, g, alt.atoms[alt.grp].cs)
        n == CHOOSE m \in 1..run :
                /\ MatchFrom(alt.atoms, alt.grp + 1, text, g + m)
                /\ \A u \in (m + 1)..run : ~MatchFrom(alt.atoms, alt.grp + 1, text, g + u)
    IN SubSeq(text, g, g + n - 1)

\* int(digits)
RECURSIVE int(_)
int(d) ==
    IF d = <<>> THEN 0
    ELSE 10 * int(SubSeq(d, 1, Len(d) - 1)) + DigitValue[d[Len(d)]]

----------------------------------------------------------------------------
(* extract_position_count *)

DefaultCount == 1
MaxCount == 10
BodyLimit == 1000

Pattern(re, value) == [re |-> re, value |-> value]

\* Direct number patterns in title, in list order
number_patterns ==
    << Pattern(<<Alt(Lit(S_lparen) \o Digits \o Lit(S_position) \o Opt({"s"})
                        \o Lit(S_rparen), 2)>>, 1),
       Pattern(<<Alt(Digits \o Lit(S_tenure) \o Opt({"-", " "})
                        \o Lit(S_track_position), 1)>>, 1),
       Pattern(<<Alt(Digits \o Lit(S_position), 1)>>, 1),
       Pattern(Word(S_two), 2),
       Pattern(Word(S_three), 3),
       Pattern(Word(S_four), 4),
       Pattern(Word(S_five), 5),
       Pattern(Word(S_six), 6),
       Pattern(Word(S_several), 3),
       Pattern(Word(S_multiple), 2) >>

WeAreNum(noun) == Alt(Lit(S_we_are) \o Digits \o Lit(noun), Len(S_we_are) + 1)
WeHaveNum(noun) == Alt(Lit(S_we_have) \o Digits \o Lit(noun), Len(S_we_have) + 1)
HiringNum(rank) == Alt(Lit(S_hiring) \o Digits \o Lit(rank), Len(S_hiring) + 1)
WeAreOrHave(w) == <<Alt(Lit(S_we_are \o w), 0), Alt(Lit(S_we_have \o w), 0)>>

\* More specific patterns for full text, in list order
text_patterns ==
    << Pattern(<<WeAreNum(S_openings), WeAreNum(S_positions), WeAreNum(S_vacancies),
                 WeHaveNum(S_openings), WeHaveNum(S_positions), WeHaveNum(S_vacancies)>>, 1),
       Pattern(<<Alt(Digits \o Lit(S_tenure) \o Opt({"-", " "})
                        \o Lit(S_track_position) \o Opt({"s"}), 1)>>, 1),
       Pattern(<<HiringNum(S_assistant), HiringNum(S_associate), HiringNum(S_full)>>, 1),
       Pattern(<<Alt(Lit(S_invites) \o Digits, Len(S_invites) + 1)>>, 1),
       Pattern(<<Alt(Lit(S_we_seek) \o Digits, Len(S_we_seek) + 1)>>, 1),
       Pattern(<<Alt(Lit(S_recruiting) \o Digits, Len(S_recruiting) + 1)>>, 1),
       Pattern(WeAreOrHave(S_two), 2),
       Pattern(WeAreOrHave(S_three), 3),
       Pattern(WeAreOrHave(S_four), 4),
       Pattern(WeAreOrHave(S_five), 5) >>

\* Variant of FirstMatch: the pattern whose match starts leftmost in the text
\* wins, instead of the first pattern in list order.
FirstMatchByPosition(patterns, text) ==
    LET cands == StartPositions(patterns, text)
        at == [k \in 1..Len(patterns) |-> SearchIn(patterns[k].re, text, cands)]
        hits == {k \in 1..Len(patterns) : at[k] # 0}
    IN IF hits = {} THEN 0
       ELSE CHOOSE k \in hits :
               \A j \in hits : at[k] < at[j] \/ (at[k] = at[j] /\ k <= j)

\* for pattern, value in patterns: ... break -- index of the first pattern
\* that matches text, 0 when the loop ends without a match
FirstMatch(patterns, text) ==
    LET cands == StartPositions(patterns, text)
        hits == {k \in 1..Len(patterns) : SearchIn(patterns[k].re, text, cands) # 0}
    IN IF hits = {} THEN 0 ELSE CHOOSE k \in hits : \A j \in hits : k <= j

\* isinstance(value, int)
isinstance_int(value) == value \in Int

\* Variant of MatchedCount: a pattern with a group gives int(match.group(1))
\* whatever its value is.
MatchedCountCaptured(p, text, guarded) ==
    LET s == Search(p.re, text)
    IN IF TakenAlt(p.re, text, s).grp = 0 THEN p.value
       ELSE int(Group1(p.re, text, s))

\* The count a matching pattern gives: its value when that is an int, else
\* int(match.group(1)); the full-text loop wraps the conversion in try/except
\* and falls back to 1.
MatchedCount(p, text, guarded) ==
    IF isinstance_int(p.value) THEN p.value
    ELSE LET g == Group1(p.re, text, Search(p.re, text))
         IN IF guarded /\ \E i \in 1..Len(g) : g[i] \notin DigitChars
            THEN 1 ELSE int(g)

\* Variant of TitleCount: the count starts at 0 instead of 1.
TitleCountFromZero(title_cell) ==
    LET t == lower(Str(title_cell))
        k == FirstMatch(number_patterns, t)
    IN IF k = 0 THEN 0 ELSE MatchedCount(number_patterns[k], t, FALSE)

\* count after the title loop
TitleCount(title_cell) ==
    LET t == lower(Str(title_cell))
        k == FirstMatch(number_patterns, t)
    IN IF k = 0 THEN DefaultCount ELSE MatchedCount(number_patterns[k], t, FALSE)

\* Variant of TextCount: the whole text is searched, not its first 1000
\* characters.
TextCountUnsliced(text_cell, cnt) ==
    LET full_text == lower(Str(text_cell))
        k == FirstMatch(text_patterns, full_text)
    IN IF k = 0 THEN cnt ELSE MatchedCount(text_patterns[k], full_text, TRUE)

\* count after the full-text loop, entered when count == 1
TextCount(text_cell, cnt) ==
    LET full_text == lower(Str(text_cell))
        head == Slice(full_text, BodyLimit)
        k == FirstMatch(text_patterns, head)
    IN IF k = 0 THEN cnt ELSE MatchedCount(text_patterns[k], head, TRUE)

extract_position_count(title_cell, text_cell) ==
    LET c1 == TitleCount(title_cell)
        c2 == IF c1 = 1 THEN TextCount(text_cell, c1) ELSE c1
    IN Min(c2, MaxCount)

----------------------------------------------------------------------------
(* Inputs of the extractor runs *)

MaxTitleToks == 2
MaxBack == 11

TitleToks ==
    {T_paren4, T_99, T_2tt, T_0, T_two, T_Three, T_four, T_five, T_six,
     T_several, T_multiple, T_x, T_4}

\* The texts made of at most n tokens
RECURSIVE Concats(_, _)
Concats(toks, n) ==
    IF n = 0 THEN {<<>>}
    ELSE LET shorter == Concats(toks, n - 1)
         IN shorter \cup {s \o t : s \in shorter, t \in toks}

Titles == {Text(s) : s \in Concats(TitleToks, MaxTitleToks)} \cup {NaN, Absent}

Bodies ==
    {Text(s) : s \in {<<>>, B_sp, B_we_are_3, B_we_have_two, B_recruiting12,
                      B_sp \o B_we_are_five, B_2tt \o B_we_have_two}}
        \cup {NaN, Absent}

\* n filler characters
Pad(n) == [i \in 1..n |-> "x"]

\* Texts whose count phrase ends up to MaxBack characters before the limit,
\* or is cut by it
LongBodies ==
    {Text(Pad(BodyLimit - k) \o p \o q) :
        k \in (Len(B_we_have_two) - 1)..MaxBack,
        p \in {B_we_have_two, B_we_are_five},
        q \in {<<>>, B_we_are_five, B_we_have_two}}

FewTitles == {Text(T_x), Text(T_six), Text(T_paren4)}

\* One row is given to extract_position_count (line 115 applies it per row);
\* a second row with the same title and another full text is processed with it.
ApplyExtract ==
    /\ pc = "row"
    /\ count' = extract_position_count(title, body)
    /\ count2' = extract_position_count(title, body2)
    /\ pc' = "extracted"
    /\ UNCHANGED <<title, body, body2, df, weekly_data, found, error, site, plot,
                   later_vars>>

InitExtract ==
    /\ pc = "row"
    /\ title \in Titles
    /\ body \in Bodies
    /\ body2 = Absent
    /\ count = 0
    /\ count2 = 0
    /\ df = <<>>
    /\ weekly_data = <<>>
    /\ found = TRUE
    /\ error = "none"
    /\ site = <<>>
    /\ plot = <<>>
    /\ InitLater

NextExtract == ApplyExtract

SpecExtract == InitExtract /\ [][NextExtract]_vars

InitBody ==
    /\ pc = "row"
    /\ title \in FewTitles
    /\ body \in LongBodies \cup Bodies
    /\ body2 \in LongBodies
    /\ count = 0
    /\ count2 = 0
    /\ df = <<>>
    /\ weekly_data = <<>>
    /\ found = TRUE
    /\ error = "none"
    /\ site = <<>>
    /\ plot = <<>>
    /\ InitLater

NextBody == ApplyExtract

SpecBody == InitBody /\ [][NextBody]_vars

----------------------------------------------------------------------------
(* Calendar: Timestamp.year/.month and .dt.isocalendar() *)

\* A Date_Active cell: <<year, month, day>>, or NaT when the cell is empty or
\* does not parse (pd.to_datetime(..., errors='coerce')).
NaT == <<0, 0, 0>>

\* A Date_Active cell holding text that is not a date
Unparseable == <<0, 0, 1>>

\* pd.to_datetime(cell, errors='coerce')
to_datetime_coerce(cell) == IF cell = Unparseable THEN NaT ELSE cell

IsLeap(y) == y % 4 = 0 /\ (y % 100 # 0 \/ y % 400 = 0)

DaysInMonth(y, m) ==
    CASE m \in {4, 6, 9, 11} -> 30
      [] m = 2 -> IF IsLeap(y) THEN 29 ELSE 28
      [] OTHER -> 31

RECURSIVE DaysBeforeMonth(_, _)
DaysBeforeMonth(y, m) ==
    IF m = 1 THEN 0 ELSE DaysBeforeMonth(y, m - 1) + DaysInMonth(y, m - 1)

\* Proleptic Gregorian ordinal: 0001-01-01 (a Monday) is day 1
Ordinal(d) ==
    LET py == d[1] - 1
    IN py * 365 + py \div 4 - py \div 100 + py \div 400
       + DaysBeforeMonth(d[1], d[2]) + d[3]

\* The ordinal of the Monday that starts ISO week 1 of year y: the week that
\* holds the year's first Thursday
IsoWeek1Monday(y) ==
    LET firstday == Ordinal(<<y, 1, 1>>)
        firstweekday == (firstday + 6) % 7
        monday == firstday - firstweekday
    IN IF firstweekday > 3 THEN monday + 7 ELSE monday

\* isocalendar(): [year, week]
isocalendar(d) ==
    LET today == Ordinal(d)
        week == (today - IsoWeek1Monday(d[1])) \div 7
    IN IF today < IsoWeek1Monday(d[1])
       THEN [year |-> d[1] - 1,
             week |-> (today - IsoWeek1Monday(d[1] - 1)) \div 7 + 1]
       ELSE IF week >= 52 /\ today >= IsoWeek1Monday(d[1] + 1)
       THEN [year |-> d[1] + 1, week |-> 1]
       ELSE [year |-> d[1], week |-> week + 1]

----------------------------------------------------------------------------
(* The pipeline of main(): process_xls_files, analyze_date_fields,          *)
(* create_weekly_cumulative.  A row of df is a record; a column that does   *)
(* not exist yet holds 0.                                                   *)

FirstWeek == 30
StopWeek == 58

(* Section labels of the job board, and the filter strings of the callers *)

\* "US: Full-Time Academic (Permanent, Tenure Track or Tenured)"
L_us_full ==
    <<"U", "S", ":", " ", "F", "u", "l", "l", "-", "T", "i", "m", "e", " ",
      "A", "c", "a", "d", "e", "m", "i", "c", " ", "(", "P", "e", "r", "m",
      "a", "n", "e", "n", "t", ",", " ", "T", "e", "n", "u", "r", "e", " ",
      "T", "r", "a", "c", "k", " ", "o", "r", " ", "T", "e", "n", "u", "r",
      "e", "d", ")">>

\* "International: Full-Time Academic"
L_intl ==
    <<"I", "n", "t", "e", "r", "n", "a", "t", "i", "o", "n", "a", "l", ":",
      " ", "F", "u", "l", "l", "-", "T", "i", "m", "e", " ", "A", "c", "a",
      "d", "e", "m", "i", "c">>

\* "Full-Time Nonacademic"
L_nonacademic ==
    <<"F", "u", "l", "l", "-", "T", "i", "m", "e", " ", "N", "o", "n", "a",
      "c", "a", "d", "e", "m", "i", "c">>

\* "US: Full-Time Academic"
F_us ==
    <<"U", "S", ":", " ", "F", "u", "l", "l", "-", "T", "i", "m", "e", " ",
      "A", "c", "a", "d", "e", "m", "i", "c">>

\* "Nonacademic"
F_nonacademic ==
    <<"N", "o", "n", "a", "c", "a", "d", "e", "m", "i", "c">>

RawRow(t, d) ==
    [jp_title |-> t, jp_full_text |-> Absent, Date_Active |-> d,
     jp_section |-> Text(L_us_full),
     position_count |-> 0, iso_year |-> 0, iso_week |-> 0, academic_year |-> 0]

SectionRow(t, d, label) == [RawRow(t, d) EXCEPT !.jp_section = label]

\* The regular expression a filter string is: "(" and ")" delimit a group and
\* consume nothing, every other character of the callers' filters is a
\* literal.
FilterRegex(pat) ==
    LET literal(c) == c \notin {"(", ")"}
    IN <<Alt(Lit(SelectSeq(pat, literal)), 0)>>

\* Series.str.contains(pat, na=False, case=False) for one cell, regex being
\* pat compiled: it is searched ignoring case; a missing label gives False.
str_contains(cell, regex) ==
    /\ cell.kind = "str"
    /\ Search(regex, lower(cell.s)) # 0

\* df[df['jp_section'].str.contains(pat, na=False, case=False)]
FilterSection(rows, pat) ==
    LET regex == FilterRegex(lower(pat))
        keep(r) == str_contains(r.jp_section, regex)
    IN SelectSeq(rows, keep)

filter_us_academic(rows) == FilterSection(rows, F_us)

\* rows['position_count'].sum()
RECURSIVE SumPositionCount(_)
SumPositionCount(rows) ==
    IF rows = <<>> THEN 0
    ELSE Head(rows).position_count + SumPositionCount(Tail(rows))

\* full_df.apply(extract_position_count, axis=1)
WithPositionCount(rows) ==
    [i \in 1..Len(rows) |->
        [rows[i] EXCEPT !.position_count =
            extract_position_count(rows[i].jp_title, rows[i].jp_full_text)]]

AcademicYearAfterAugust(d) == IF d[2] > 8 THEN d[1] ELSE d[1] - 1

\* lambda x: x.year if x.month >= 8 else x.year - 1
AcademicYearOf(d) == IF d[2] >= 8 THEN d[1] ELSE d[1] - 1

\* analyze_date_fields: rows with invalid dates are removed, the others get
\* iso_year, iso_week and academic_year
WithDateFields(rows) ==
    LET parsed == [i \in 1..Len(rows) |->
                      [rows[i] EXCEPT
                          !.Date_Active = to_datetime_coerce(rows[i].Date_Active)]]
        valid_dates(r) == r.Date_Active # NaT
        kept == SelectSeq(parsed, valid_dates)
    IN [i \in 1..Len(kept) |->
          [kept[i] EXCEPT !.iso_year = isocalendar(kept[i].Date_Active).year,
                          !.iso_week = isocalendar(kept[i].Date_Active).week,
                          !.academic_year = AcademicYearOf(kept[i].Date_Active)]]

\* Variant of week_openings: the postings of each week are counted, not
\* their openings summed.
week_postings(year_data) ==
    [w \in {year_data[i].iso_week : i \in 1..Len(year_data)} |->
        LET in_week(r) == r.iso_week = w
        IN Len(SelectSeq(year_data, in_week))]

\* Variant of week_openings: the first five ISO weeks of a year are counted
\* as weeks 53..57.
week_openings_wrapped(year_data) ==
    LET bucket(r) == IF r.iso_week <= 5 THEN r.iso_week + 52 ELSE r.iso_week
    IN [w \in {bucket(year_data[i]) : i \in 1..Len(year_data)} |->
          LET in_week(r) == bucket(r) = w
          IN SumPositionCount(SelectSeq(year_data, in_week))]

\* year_data.groupby('iso_week')['position_count'].sum()
week_openings(year_data) ==
    [w \in {year_data[i].iso_week : i \in 1..Len(year_data)} |->
        LET in_week(r) == r.iso_week = w
        IN SumPositionCount(SelectSeq(year_data, in_week))]

\* Variant of NextTotal: the week's openings replace the running total.
NextTotalAssigned(openings, week, total_so_far) ==
    IF week \in DOMAIN openings THEN openings[week] ELSE total_so_far

\* if week in week_openings.index: total_so_far += week_openings[week]
NextTotal(openings, week, total_so_far) ==
    IF week \in DOMAIN openings THEN total_so_far + openings[week] ELSE total_so_far

\* for week in weeks: ...; cumulative.append(total_so_far)
RECURSIVE WeekLoop(_, _, _, _)
WeekLoop(openings, week, total_so_far, cumulative) ==
    IF week >= StopWeek
    THEN [cumulative |-> cumulative, total_so_far |-> total_so_far]
    ELSE LET t == NextTotal(openings, week, total_so_far)
         IN WeekLoop(openings, week + 1, t, Append(cumulative, t))

\* Variant of SeriesTotal: the openings of all of the year's postings.
SeriesTotalAllWeeks(year_data, loop) == SumPositionCount(year_data)

\* 'total': total_so_far
SeriesTotal(year_data, loop) == loop.total_so_far

SeriesPostingsInWindow(year_data) ==
    LET in_window(r) == r.iso_week \in FirstWeek..(StopWeek - 1)
    IN Len(SelectSeq(year_data, in_window))

\* 'postings': len(year_data)
SeriesPostings(year_data) == Len(year_data)

\* The series of one academic year
YearSeries(year_data) ==
    LET loop == WeekLoop(week_openings(year_data), FirstWeek, 0, <<>>)
    IN [weeks |-> [i \in 1..(StopWeek - FirstWeek) |-> FirstWeek + i - 1],
        cumulative |-> loop.cumulative,
        total |-> SeriesTotal(year_data, loop),
        postings |-> SeriesPostings(year_data)]

\* Variant of create_weekly_cumulative: a series for every academic year from
\* 2023 to 2025, whether or not a record has it.
create_weekly_cumulative_fixed_years(rows) ==
    [ac_year \in 2023..2025 |->
        LET of_year(r) == r.academic_year = ac_year
        IN YearSeries(SelectSeq(rows, of_year))]

create_weekly_cumulative(rows) ==
    [ac_year \in {rows[i].academic_year : i \in 1..Len(rows)} |->
        LET in_year(r) == r.academic_year = ac_year
        IN YearSeries(SelectSeq(rows, in_year))]

----------------------------------------------------------------------------
(* Inputs and steps of the pipeline *)

MaxRows == 3

\* 2024-07-25 (week 30 of academic year 2023), 2024-08-01 (week 31),
\* 2024-09-15 (week 37), 2024-09-20 (week 38), 2024-12-30 (week 1),
\* 2025-03-10 (week 11), 2025-07-24 (week 30 of academic year 2024)
Dates ==
    {<<2024, 7, 25>>, <<2024, 8, 1>>, <<2024, 9, 15>>, <<2024, 9, 20>>,
     <<2024, 12, 30>>, <<2025, 3, 10>>, <<2025, 7, 24>>}

\* The rows a file can hold: US academic postings, dated or with a date cell
\* that is empty or does not parse, and one posting of another section
InputRows ==
    {RawRow(Text(T_x), d) : d \in Dates}
        \cup {RawRow(Text(T_several), d) :
                 d \in {<<2024, 9, 15>>, <<2024, 9, 20>>, <<2025, 3, 10>>}}
        \cup {RawRow(Text(T_x), NaT), RawRow(Text(T_x), Unparseable),
              SectionRow(Text(T_x), <<2024, 9, 15>>, Text(L_nonacademic))}

\* pd.read_excel / pd.concat: one more row of the files found reaches the frame
ReadRow ==
    /\ pc = "read"
    /\ found
    /\ Len(df) < MaxRows
    /\ \E r \in InputRows : df' = Append(df, r)
    /\ UNCHANGED <<pc, title, body, body2, count, count2, weekly_data,
                   found, error, site, plot,
                   later_vars>>

\* The outcomes of process_xls_files for the rows of the files found. With
\* no file pd.concat([]) raises ValueError. With files that hold no row,
\* full_df.apply(..., axis=1) gives an empty frame, and whether assigning it
\* to the position_count column raises depends on the pandas installed.
ProcessXls(files_found, rows) ==
    CASE ~files_found -> {[error |-> "ValueError", df |-> rows]}
      [] files_found /\ Len(rows) = 0 ->
            {[error |-> "none", df |-> rows],
             [error |-> "ValueError", df |-> rows]}
      [] OTHER -> {[error |-> "none", df |-> WithPositionCount(rows)]}

process_xls_files ==
    /\ pc = "read"
    /\ \E out \in ProcessXls(found, df) :
          /\ df' = out.df
          /\ error' = out.error
          /\ pc' = IF out.error = "none" THEN "processed" ELSE "raised"
    /\ UNCHANGED <<title, body, body2, count, count2, weekly_data,
                   found, site, plot,
                   later_vars>>

analyze_date_fields ==
    /\ pc = "processed"
    /\ df' = WithDateFields(df)
    /\ pc' = "analyzed"
    /\ UNCHANGED <<title, body, body2, count, count2, weekly_data,
                   found, error, site, plot,
                   later_vars>>

FilterUsAcademic ==
    /\ pc = "analyzed"
    /\ df' = filter_us_academic(df)
    /\ pc' = "filtered"
    /\ UNCHANGED <<title, body, body2, count, count2, weekly_data,
                   found, error, site, plot,
                   later_vars>>

CreateWeeklyCumulative ==
    /\ pc = "filtered"
    /\ weekly_data' = create_weekly_cumulative(df)
    /\ pc' = "done"
    /\ UNCHANGED <<title, body, body2, count, count2, df,
                   found, error, site, plot,
                   later_vars>>

\* The pipeline before process_xls_files has read anything
InitPipeline ==
    /\ pc = "read"
    /\ df = <<>>
    /\ weekly_data = <<>>
    /\ found \in BOOLEAN
    /\ error = "none"
    /\ site = <<>>
    /\ plot = <<>>
    /\ title = Absent
    /\ body = Absent
    /\ body2 = Absent
    /\ count = 0
    /\ count2 = 0

Init ==
    /\ InitPipeline
    /\ InitLater

Next ==
    \/ ReadRow
    \/ process_xls_files
    \/ analyze_date_fields
    \/ FilterUsAcademic
    \/ CreateWeeklyCumulative

Spec == Init /\ [][Next]_vars

----------------------------------------------------------------------------
(* generate_static_site.py: generate_data_json *)

\* for i in range(len(cumulative) - 1, 0, -1):
\*     if cumulative[i] > cumulative[i-1]: ... break
\* i is the index as the code counts it, from 0; -1 when the loop ends without
\* a break
RECURSIVE LastIncrease(_, _)
LastIncrease(cumulative, i) ==
    IF i < 1 THEN -1
    ELSE IF cumulative[i + 1] > cumulative[i] THEN i
    ELSE LastIncrease(cumulative, i - 1)

\* Variant of Truncate: the week of the last increase is cut as well.
TruncateBeforeIncrease(weeks, cumulative) ==
    LET i == LastIncrease(cumulative, Len(cumulative) - 1)
    IN IF i = -1
       THEN [weeks |-> weeks, cumulative |-> cumulative]
       ELSE [weeks |-> SubSeq(weeks, 1, i), cumulative |-> SubSeq(cumulative, 1, i)]

\* weeks = weeks[:i+1]; cumulative = cumulative[:i+1]
Truncate(weeks, cumulative) ==
    LET i == LastIncrease(cumulative, Len(cumulative) - 1)
    IN IF i = -1
       THEN [weeks |-> weeks, cumulative |-> cumulative]
       ELSE [weeks |-> SubSeq(weeks, 1, i + 1),
             cumulative |-> SubSeq(cumulative, 1, i + 1)]

\* The section keys of the site and the filter string of each
SectionKeys == {"us_academic", "intl_academic", "nonacademic"}

SectionFilter(section_key) ==
    CASE section_key = "us_academic" -> F_us
      [] section_key = "intl_academic" -> L_intl
      [] section_key = "nonacademic" -> F_nonacademic

\* The condition under which a series of a view is truncated
TruncatesYear(section_key, year, weeks) ==
    IF section_key \in {"us_academic", "all_sections"}
    THEN year = 2025 /\ Len(weeks) > 0
    ELSE Len(weeks) > 0

\* section_json[str(year)]
SeriesJson(section_key, year, data) ==
    LET cut == IF TruncatesYear(section_key, year, data.weeks)
               THEN Truncate(data.weeks, data.cumulative)
               ELSE [weeks |-> data.weeks, cumulative |-> data.cumulative]
    IN [weeks |-> cut.weeks, cumulative |-> cut.cumulative,
        total |-> data.total, postings |-> data.postings]

\* The section_json of a filtered view
SectionJson(section_key, rows) ==
    LET weekly == create_weekly_cumulative(
                      FilterSection(rows, SectionFilter(section_key)))
    IN [year \in DOMAIN weekly |-> SeriesJson(section_key, year, weekly[year])]

\* all_sections_data
AllSectionsJson(rows) ==
    [year \in {rows[i].academic_year : i \in 1..Len(rows)} |->
        LET of_year(r) == r.academic_year = year
            weekly == create_weekly_cumulative(SelectSeq(rows, of_year))
        IN SeriesJson("all_sections", year, weekly[year])]

SectionsData(rows) ==
    LET present == {k \in SectionKeys :
                       Len(FilterSection(rows, SectionFilter(k))) > 0}
    IN [k \in present \cup {"all_sections"} |->
          IF k = "all_sections" THEN AllSectionsJson(rows)
          ELSE SectionJson(k, rows)]

\* df['Date_Active'].min() and .max(); NaT for a frame without rows
MinDate(rows) ==
    IF Len(rows) = 0 THEN NaT
    ELSE LET ds == {rows[i].Date_Active : i \in 1..Len(rows)}
         IN CHOOSE d \in ds : \A e \in ds : Ordinal(d) <= Ordinal(e)

MaxDate(rows) ==
    IF Len(rows) = 0 THEN NaT
    ELSE LET ds == {rows[i].Date_Active : i \in 1..Len(rows)}
         IN CHOOSE d \in ds : \A e \in ds : Ordinal(d) >= Ordinal(e)

EmptyDataset ==
    [metadata |-> [total_postings |-> 0,
                   date_range |-> [start |-> None, end |-> None]],
     sections |-> <<>>]

\* What generate_data_json returns from the frame process_xls_files gave
DataJson(full_df) ==
    IF Len(full_df) = 0
    THEN EmptyDataset
    ELSE LET rows == WithDateFields(full_df)
         IN [metadata |-> [total_postings |-> Len(rows),
                           date_range |-> [start |-> MinDate(rows),
                                           end |-> MaxDate(rows)]],
             sections |-> SectionsData(rows)]

MaxSiteRows == 2

SiteDates ==
    {<<2024, 9, 15>>, <<2025, 9, 16>>, <<2025, 11, 3>>, <<2026, 1, 14>>,
     <<2026, 7, 23>>, <<2026, 9, 15>>, NaT}

SiteLabels == {Text(L_us_full), Text(L_intl), Text(L_nonacademic), NaN}

\* The rows the files of the site can hold
SiteRows ==
    {SectionRow(Text(T_x), d, l) : d \in SiteDates, l \in SiteLabels}
        \cup {RawRow(Text(T_several), <<2025, 11, 3>>),
              RawRow(Text(T_several), <<2026, 7, 23>>)}

\* pd.read_excel / pd.concat: one more row; the jp_section column of the
\* files holds text, so that a row without a label follows a labelled one
ReadSiteRow ==
    /\ pc = "read"
    /\ found
    /\ Len(df) < MaxSiteRows
    /\ \E r \in SiteRows :
          /\ r.jp_section = NaN => (Len(df) > 0 /\ df[1].jp_section # NaN)
          /\ df' = Append(df, r)
    /\ UNCHANGED <<pc, title, body, body2, count, count2, weekly_data,
                   found, error, site, plot,
                   later_vars>>

generate_data_json ==
    /\ pc = "read"
    /\ \E out \in ProcessXls(found, df) :
          /\ error' = out.error
          /\ IF out.error = "none"
             THEN site' = DataJson(out.df) /\ pc' = "returned"
             ELSE site' = site /\ pc' = "raised"
    /\ UNCHANGED <<title, body, body2, count, count2, df, weekly_data,
                   found, plot,
                   later_vars>>

NextSite ==
    \/ ReadSiteRow
    \/ generate_data_json

SpecSite == Init /\ [][NextSite]_vars

----------------------------------------------------------------------------
(* joe_app.py: JOETracker.load_data and create_main_plot;
   joe_web_app.py: JOEWebApp.create_interactive_plot *)

AppStopWeek == 54

WebStopWeek == 58

\* Variant of WeeksTo: the weeks of create_weekly_cumulative whatever the stop.
WeeksToFiftySeven(stop) == [i \in 1..28 |-> 29 + i]

\* list(range(30, stop))
WeeksTo(stop) == [i \in 1..(stop - 30) |-> 29 + i]

\* for week in weeks: if week in week_openings.index: total_so_far += ...;
\* cumulative.append(total_so_far)
RECURSIVE WeekLoopTo(_, _, _, _, _)
WeekLoopTo(openings, week, stop, total_so_far, cumulative) ==
    IF week >= stop
    THEN cumulative
    ELSE LET t == IF week \in DOMAIN openings
                  THEN total_so_far + openings[week]
                  ELSE total_so_far
         IN WeekLoopTo(openings, week + 1, stop, t, Append(cumulative, t))

\* seq[:k] as Python slices: a negative k counts from the end
SliceTo(seq, k) ==
    IF k >= 0 THEN SubSeq(seq, 1, Min(k, Len(seq)))
    ELSE SubSeq(seq, 1, Len(seq) + k)

\* The academic_year of a row whose date is NaT: NaN, equal to no year
NaNYear == NaT[1]

\* The outcomes of load_data for the rows of the files found: without
\* errors='coerce' pd.to_datetime raises on a cell that does not parse; a
\* row without a date stays, its calculated fields NaN. No file gives an
\* empty frame; for files without rows see ProcessXls.
LoadData(files_found, rows) ==
    CASE ~files_found -> {[error |-> "none", df |-> <<>>]}
      [] files_found /\ Len(rows) = 0 ->
            {[error |-> "none", df |-> rows],
             [error |-> "ValueError", df |-> rows]}
      [] \E i \in 1..Len(rows) : rows[i].Date_Active = Unparseable ->
            {[error |-> "ValueError", df |-> rows]}
      [] OTHER ->
            {[error |-> "none",
              df |-> [i \in 1..Len(rows) |->
                  LET d == rows[i].Date_Active
                      counted == [rows[i] EXCEPT !.position_count =
                                    extract_position_count(rows[i].jp_title,
                                                           rows[i].jp_full_text)]
                  IN IF d = NaT
                     THEN [counted EXCEPT !.academic_year = NaNYear]
                     ELSE [counted EXCEPT
                              !.iso_year = isocalendar(d).year,
                              !.iso_week = isocalendar(d).week,
                              !.academic_year = AcademicYearOf(d)]]]}

\* self.sections.get(selected_section, selected_section)
SectionFilterOf(selected_section) ==
    CASE selected_section = "US: Full-Time Academic" -> L_us_full
      [] selected_section = "Full-Time Nonacademic" -> L_nonacademic
      [] selected_section = "International: Full-Time Academic" -> L_intl

\* ac_year == current_year - 1 or
\*     (ac_year == current_year and today.month < 8)
IsCurrentYear(ac_year, today) ==
    \/ ac_year = today[1] - 1
    \/ (ac_year = today[1] /\ today[2] < 8)

\* One pass of the loop of create_main_plot; shown is FALSE where the code
\* continues to the next year without adding a trace
MainTrace(year_data, ac_year, today) ==
    LET weeks == WeeksTo(AppStopWeek)
        cumulative == WeekLoopTo(week_openings(year_data), FirstWeek,
                                 AppStopWeek, 0, <<>>)
        weeks_to_show == Min(isocalendar(today).week - 30 + 1, Len(weeks))
        current == IsCurrentYear(ac_year, today)
        cut == current /\ weeks_to_show > 0
    IN [loop_weeks |-> weeks, loop_cumulative |-> cumulative,
        weeks |-> IF cut THEN SubSeq(weeks, 1, weeks_to_show) ELSE weeks,
        cumulative |-> IF cut THEN SubSeq(cumulative, 1, weeks_to_show)
                       ELSE cumulative,
        current |-> current,
        shown |-> current => weeks_to_show > 0]

\* create_main_plot: the filtered frame and the outcome of the loop for each
\* selected year that has rows
MainPlot(rows, selected_years, selected_section, today) ==
    LET section_filter == IF selected_section # "All Sections"
                          THEN SectionFilterOf(selected_section)
                          ELSE <<>>
        filtered == IF selected_section # "All Sections"
                    THEN FilterSection(rows, section_filter)
                    ELSE rows
        with_data == {y \in selected_years :
                         \E i \in 1..Len(filtered) : filtered[i].academic_year = y}
    IN [view |-> "main", today |-> today, section |-> selected_section,
        section_filter |-> section_filter, rows |-> filtered,
        traces |-> [ac_year \in with_data |->
            LET in_year(r) == r.academic_year = ac_year
            IN MainTrace(SelectSeq(filtered, in_year), ac_year, today)]]

\* One pass of the loop of create_interactive_plot
WebTrace(year_data, ac_year) ==
    LET weeks == WeeksTo(WebStopWeek)
        cumulative == WeekLoopTo(week_openings(year_data), FirstWeek,
                                 WebStopWeek, 0, <<>>)
        last_week_with_data ==
            CHOOSE w \in {year_data[i].iso_week : i \in 1..Len(year_data)} :
                \A i \in 1..Len(year_data) : year_data[i].iso_week <= w
        cutoff_idx == Min(last_week_with_data - 30 + 1, Len(weeks))
        cut == ac_year = 2025
    IN [loop_weeks |-> weeks, loop_cumulative |-> cumulative,
        weeks |-> IF cut THEN SliceTo(weeks, cutoff_idx) ELSE weeks,
        cumulative |-> IF cut THEN SliceTo(cumulative, cutoff_idx)
                       ELSE cumulative,
        current |-> cut,
        shown |-> TRUE]

\* create_interactive_plot, section_filter being "All Sections" or
\* "US: Full-Time Academic", itself the pattern: a trace for each year of the filtered frame from
\* 2019 on. A NaN year is not below 2019 and equals no row's year: its trace
\* is drawn from no row.
InteractivePlot(rows, section_filter) ==
    LET pat == IF section_filter # "All Sections" THEN F_us ELSE <<>>
        filtered == IF section_filter # "All Sections"
                    THEN FilterSection(rows, pat)
                    ELSE rows
        years == {filtered[i].academic_year : i \in 1..Len(filtered)}
    IN [view |-> "web", today |-> NaT, section |-> section_filter,
        section_filter |-> pat, rows |-> filtered,
        traces |-> [ac_year \in {y \in years : y = NaNYear \/ y >= 2019} |->
            LET in_year(r) == ac_year # NaNYear /\ r.academic_year = ac_year
            IN WebTrace(SelectSeq(filtered, in_year), ac_year)]]

MaxAppRows == 2

\* The rows the files of the dashboard can hold
AppRows ==
    {SectionRow(Text(T_x), d, l) :
        d \in {<<2024, 9, 15>>, <<2025, 9, 16>>, NaT, Unparseable},
        l \in {Text(L_us_full), Text(L_nonacademic)}}
      \cup {RawRow(Text(T_several), <<2025, 11, 3>>),
            RawRow(Text(T_x), <<2025, 8, 1>>),
            SectionRow(Text(T_several), <<2024, 12, 30>>, Text(L_intl)),
            SectionRow(Text(T_x), <<2025, 9, 16>>, NaN)}

\* datetime.now() when the plot is drawn
Todays ==
    {<<2025, 9, 15>>, <<2025, 12, 29>>, <<2026, 3, 10>>, <<2026, 7, 23>>}

Sections ==
    {"All Sections", "US: Full-Time Academic", "Full-Time Nonacademic",
     "International: Full-Time Academic"}

ReadAppRow ==
    /\ pc = "read"
    /\ found
    /\ Len(df) < MaxAppRows
    /\ \E r \in AppRows :
          /\ r.jp_section = NaN => (Len(df) > 0 /\ df[1].jp_section # NaN)
          /\ df' = Append(df, r)
    /\ UNCHANGED <<pc, title, body, body2, count, count2, weekly_data,
                   found, error, site, plot,
                   later_vars>>

load_data ==
    /\ pc = "read"
    /\ \E out \in LoadData(found, df) :
          /\ error' = out.error
          /\ df' = out.df
          /\ pc' = IF out.error # "none" THEN "raised"
                   ELSE IF Len(out.df) = 0 THEN "no data"
                   ELSE "loaded"
    /\ UNCHANGED <<title, body, body2, count, count2, weekly_data,
                   found, site, plot,
                   later_vars>>

create_main_plot ==
    /\ pc = "loaded"
    /\ \E selected_years \in (SUBSET {2024, 2025}) \ {{}},
          selected_section \in Sections, today \in Todays :
          plot' = MainPlot(df, selected_years, selected_section, today)
    /\ pc' = "plotted"
    /\ UNCHANGED <<title, body, body2, count, count2, df, weekly_data,
                   found, error, site,
                   later_vars>>

create_interactive_plot ==
    /\ pc = "loaded"
    /\ \E section_filter \in {"All Sections", "US: Full-Time Academic"} :
          plot' = InteractivePlot(df, section_filter)
    /\ pc' = "plotted"
    /\ UNCHANGED <<title, body, body2, count, count2, df, weekly_data,
                   found, error, site,
                   later_vars>>

NextApp ==
    \/ ReadAppRow
    \/ load_data
    \/ create_main_plot
    \/ create_interactive_plot

SpecApp == Init /\ [][NextApp]_vars

----------------------------------------------------------------------------
(* The pipeline on one record of any calendar date *)

MaxYears == 2

CalendarDates ==
    {d \in (2024..(2024 + MaxYears)) \X (1..12) \X (1..31) :
        d[3] <= DaysInMonth(d[1], d[2])}

ReadCalendarRow ==
    /\ pc = "read"
    /\ Len(df) = 0
    /\ \E d \in CalendarDates : df' = <<RawRow(Text(T_x), d)>>
    /\ UNCHANGED <<pc, title, body, body2, count, count2, weekly_data,
                   found, error, site, plot,
                   later_vars>>

InitCalendar ==
    /\ Init
    /\ found

NextCalendar ==
    \/ ReadCalendarRow
    \/ process_xls_files
    \/ analyze_date_fields
    \/ FilterUsAcademic
    \/ CreateWeeklyCumulative

SpecCalendar == InitCalendar /\ [][NextCalendar]_vars

----------------------------------------------------------------------------
(* Properties of extract_position_count *)

TitleText == lower(Str(title))
BodyHead == Slice(lower(Str(body)), BodyLimit)

\* The three digit-count title patterns, in list order
NumericTitlePatterns == SubSeq(number_patterns, 1, 3)

\* The number captured by the first digit-count pattern that matches t
CapturedNumber(t) ==
    LET p == NumericTitlePatterns[FirstMatch(NumericTitlePatterns, t)]
    IN int(Group1(p.re, t, Search(p.re, t)))

\* w occurs in t with no word character on either side
Standalone(w, t) ==
    \E i \in 1..(Len(t) - Len(w) + 1) :
        /\ t[i] = w[1]
        /\ SubSeq(t, i, i + Len(w) - 1) = w
        /\ (i = 1 \/ ~IsWordChar(t[i - 1]))
        /\ (i + Len(w) > Len(t) \/ ~IsWordChar(t[i + Len(w)]))

\* The count words and what each stands for, in pattern list order
CountWords ==
    << <<S_two, 2>>, <<S_three, 3>>, <<S_four, 4>>, <<S_five, 5>>, <<S_six, 6>>,
       <<S_several, 3>>, <<S_multiple, 2>> >>

\* C1: for every title and body, absent and empty ones included,
\* extract_position_count returns an integer between 1 and 10.
C1_CountInRange ==
    pc = "extracted" => count \in 1..10 /\ count2 \in 1..10

C1_Witness ==
    /\ pc = "extracted"
    /\ title = Absent
    /\ body = NaN
    /\ count = 1

\* C2: a title that matches a digit-count pattern with a captured number N,
\* 1 <= N <= 10, gives N; "(4 positions)" gives 4.
C2_TitleNumberReturned ==
    (pc = "extracted" /\ FirstMatch(NumericTitlePatterns, TitleText) # 0
        /\ CapturedNumber(TitleText) \in 1..10)
    => count = CapturedNumber(TitleText)

\* C3: a captured count above 10 is clamped to exactly 10 ("99 positions"
\* gives 10 whatever the body text).
C3_LargeCountClamped ==
    (pc = "extracted" /\ FirstMatch(NumericTitlePatterns, TitleText) # 0
        /\ CapturedNumber(TitleText) > 10)
    => count = 10

\* C4: when any title pattern matches, the result is the same for every
\* body text.
C4_BodyIgnoredOnTitleMatch ==
    (pc = "extracted" /\ FirstMatch(number_patterns, TitleText) # 0)
    => count = count2

\* C5: with no digit-count pattern in the title, the first count word in list
\* order (two, three, four, five, six, several, multiple) that stands alone
\* in the title decides the result, wherever the words occur.
C5_FirstListedWordWins ==
    (pc = "extracted" /\ FirstMatch(NumericTitlePatterns, TitleText) = 0)
    => \A k \in 1..Len(CountWords) :
          (/\ Standalone(CountWords[k][1], TitleText)
           /\ \A j \in 1..(k - 1) : ~Standalone(CountWords[j][1], TitleText))
          => count = CountWords[k][2]

C5_Witness ==
    /\ pc = "extracted"
    /\ title = Text(T_six \o T_two)
    /\ count = 2

\* C6: a posting whose title matches no title pattern and whose body matches
\* no body pattern in its first 1000 characters gives exactly 1.
C6_NoPatternGivesOne ==
    (pc = "extracted" /\ FirstMatch(number_patterns, TitleText) = 0
        /\ FirstMatch(text_patterns, BodyHead) = 0)
    => count = 1

C6_Witness ==
    /\ pc = "extracted"
    /\ title = Text(T_x \o T_two)
    /\ body = Text(B_sp)
    /\ count = 1

\* C7: for the same title, two body texts that agree on their first 1000
\* characters give the same result.
C7_OnlyFirstThousandChars ==
    (pc = "extracted" /\ Slice(Str(body), 1000) = Slice(Str(body2), 1000))
    => count = count2

\* Two different bodies that agree up to the limit; the first holds a count
\* phrase after the limit and still gives 1.
C7_Witness ==
    /\ pc = "extracted"
    /\ title = Text(T_x)
    /\ body # body2
    /\ Slice(Str(body), 1000) = Slice(Str(body2), 1000)
    /\ FirstMatch(text_patterns, lower(Str(body))) # 0
    /\ count = 1
    /\ count2 = 1

----------------------------------------------------------------------------
(* Properties of create_weekly_cumulative.  In a state with pc = "done", df *)
(* is the frame that was given to create_weekly_cumulative.                 *)

\* The openings of the first n rows that belong to academic year y and to an
\* ISO week between 30 and w
RECURSIVE OpeningsUpTo(_, _, _, _)
OpeningsUpTo(rows, y, w, n) ==
    IF n = 0 THEN 0
    ELSE OpeningsUpTo(rows, y, w, n - 1)
         + (IF /\ rows[n].academic_year = y
               /\ 30 <= rows[n].iso_week
               /\ rows[n].iso_week <= w
            THEN rows[n].position_count ELSE 0)

\* C8: for every academic year of the output, weeks is 30..57, cumulative has
\* the same length, and the entry of week w is the sum of position_count over
\* the year's records with 30 <= iso_week <= w.
C8_CumulativeIsWindowSum ==
    pc = "done" =>
        /\ DOMAIN weekly_data = {df[i].academic_year : i \in 1..Len(df)}
        /\ \A y \in DOMAIN weekly_data :
              /\ weekly_data[y].weeks = [i \in 1..28 |-> 29 + i]
              /\ Len(weekly_data[y].cumulative) = 28
              /\ \A w \in 30..57 :
                    weekly_data[y].cumulative[w - 29] = OpeningsUpTo(df, y, w, Len(df))

\* Two postings of academic year 2024, both in ISO week 37: 0 before the
\* week, their 4 openings from it through week 57.
C8_Witness ==
    /\ pc = "done"
    /\ Len(df) = 2
    /\ \A i \in 1..Len(df) : df[i].academic_year = 2024 /\ df[i].iso_week = 37
    /\ DOMAIN weekly_data = {2024}
    /\ \A w \in 30..36 : weekly_data[2024].cumulative[w - 29] = 0
    /\ \A w \in 37..57 : weekly_data[2024].cumulative[w - 29] = 4

\* C9: with position_count values that come from extract_position_count,
\* every cumulative sequence holds non-negative integers and never decreases.
C9_CumulativeNonDecreasing ==
    pc = "done" =>
        \A y \in DOMAIN weekly_data :
            LET c == weekly_data[y].cumulative
            IN \A i \in 1..Len(c) : c[i] \in Nat /\ (i > 1 => c[i - 1] <= c[i])

\* Three openings in week 37, one more in week 38
C9_Witness ==
    /\ pc = "done"
    /\ 2024 \in DOMAIN weekly_data
    /\ weekly_data[2024].cumulative[7] = 0
    /\ weekly_data[2024].cumulative[8] = 3
    /\ weekly_data[2024].cumulative[9] = 4

\* C10: total is the last element of cumulative and the sum of position_count
\* over exactly the year's records whose iso_week lies in [30,57].
C10_TotalIsWindowSum ==
    pc = "done" =>
        \A y \in DOMAIN weekly_data :
            /\ weekly_data[y].total
                  = weekly_data[y].cumulative[Len(weekly_data[y].cumulative)]
            /\ weekly_data[y].total = OpeningsUpTo(df, y, 57, Len(df))

\* Academic year 2024 with a posting in week 11 (March 2025) beside one in
\* the window: the total holds the second only.
C10_Witness ==
    /\ pc = "done"
    /\ Len(df) = 2
    /\ \A i \in 1..Len(df) : df[i].academic_year = 2024 /\ df[i].position_count = 3
    /\ \E i \in 1..Len(df) : df[i].iso_week = 11
    /\ \E i \in 1..Len(df) : df[i].iso_week = 38
    /\ weekly_data[2024].total = 3

Without(rows, i) == SubSeq(rows, 1, i - 1) \o SubSeq(rows, i + 1, Len(rows))

\* C11: the postings of an academic-year series is the number of records of
\* that academic year whatever their ISO week; a record whose week is outside
\* 30..57 adds one to postings and changes no element of cumulative and not
\* the total, compared with the same records without it.
C11_PostingsCountAllWeeks ==
    pc = "done" =>
        /\ \A y \in DOMAIN weekly_data :
              weekly_data[y].postings =
                  Cardinality({i \in 1..Len(df) : df[i].academic_year = y})
        /\ \A i \in 1..Len(df) :
              df[i].iso_week \notin 30..57 =>
                  LET y == df[i].academic_year
                      rest == create_weekly_cumulative(Without(df, i))
                  IN IF y \in DOMAIN rest
                     THEN /\ weekly_data[y].postings = rest[y].postings + 1
                          /\ weekly_data[y].cumulative = rest[y].cumulative
                          /\ weekly_data[y].total = rest[y].total
                     ELSE /\ weekly_data[y].postings = 1
                          /\ \A k \in 1..Len(weekly_data[y].cumulative) :
                                weekly_data[y].cumulative[k] = 0
                          /\ weekly_data[y].total = 0

C11_Witness ==
    /\ pc = "done"
    /\ \E i, j \in 1..Len(df) :
          /\ df[i].academic_year = 2024 /\ df[i].iso_week = 11
          /\ df[j].academic_year = 2024 /\ df[j].iso_week = 38
    /\ weekly_data[2024].postings > 1
    /\ weekly_data[2024].total > 0

\* C12: a record with a valid date gets academic_year = year when the month
\* is August or later and year - 1 otherwise, so that academic year Y is
\* given to exactly the dates from 1 August of Y to 31 July of Y + 1.
C12_AcademicYearAugustToJuly ==
    pc \in {"analyzed", "filtered", "done"} =>
        \A i \in 1..Len(df) :
            LET d == df[i].Date_Active
            IN /\ df[i].academic_year = IF d[2] >= 8 THEN d[1] ELSE d[1] - 1
               /\ \A Y \in 2021..2027 :
                     df[i].academic_year = Y <=>
                         /\ Ordinal(<<Y, 8, 1>>) <= Ordinal(d)
                         /\ Ordinal(d) <= Ordinal(<<Y + 1, 7, 31>>)

C12_Witness ==
    /\ pc = "done"
    /\ Len(df) = 1
    /\ df[1].Date_Active = <<2024, 8, 1>>
    /\ df[1].academic_year = 2024
    /\ DOMAIN weekly_data = {2024}

\* C14: create_weekly_cumulative applied to a collection of zero records is
\* not an error and returns an empty mapping.
C14_EmptyInputEmptyMapping ==
    (pc = "done" /\ Len(df) = 0) =>
        /\ DOMAIN weekly_data = {}
        /\ error = "none"

C14_Witness ==
    /\ pc = "done"
    /\ found
    /\ Len(df) = 0
    /\ DOMAIN weekly_data = {}

----------------------------------------------------------------------------
(* Properties of generate_data_json *)

\* C16: a series to which generate_data_json applies its truncation has
\* weeks and cumulative cut at the last index where cumulative strictly
\* increased, so that the last retained week is one in which new openings
\* were added and no opening is counted after it.
C16_TruncatedEndsAtLastIncrease ==
    pc = "returned" =>
        \A k \in DOMAIN site.sections :
            \A y \in DOMAIN site.sections[k] :
                (k \in {"us_academic", "all_sections"} => y = 2025) =>
                    LET s == site.sections[k][y]
                        n == Len(s.cumulative)
                    IN /\ Len(s.weeks) = n
                       /\ n >= 1
                       /\ s.weeks[n] = 29 + n
                       /\ s.cumulative[n] >
                              (IF n = 1 THEN 0 ELSE s.cumulative[n - 1])
                       /\ s.cumulative[n] = s.total

\* C18: when no data file is found generate_data_json raises no error and
\* returns the empty dataset: total_postings 0, date range None to None, no
\* section.
C18_NoFilesEmptyDataset ==
    (~found /\ pc # "read") =>
        /\ error = "none"
        /\ pc = "returned"
        /\ site.metadata.total_postings = 0
        /\ site.metadata.date_range = [start |-> None, end |-> None]
        /\ DOMAIN site.sections = {}

\* C19: in every section view of generate_data_json the series of an
\* academic year earlier than the most recent one is emitted untruncated,
\* with the 28 weeks 30..57.
C19_EarlierYearsUntruncated ==
    pc = "returned" =>
        \A k \in DOMAIN site.sections :
            \A y \in DOMAIN site.sections[k] :
                (\E z \in DOMAIN site.sections["all_sections"] : y < z) =>
                    LET s == site.sections[k][y]
                    IN /\ Len(s.weeks) = 28
                       /\ Len(s.cumulative) = 28
                       /\ \A i \in 1..28 : s.weeks[i] = 29 + i

----------------------------------------------------------------------------
(* Properties of the dashboards *)

BadDate(r) == r.Date_Active \in {NaT, Unparseable}

GoodDate(r) == ~BadDate(r)

\* C13: a record whose Date_Active is missing or does not parse never aborts
\* the load, and the records with valid dates are plotted exactly as if the
\* bad records had not been in the input.
C13_BadDateNeverAborts ==
    (pc # "read" /\ \E i \in 1..Len(df) : BadDate(df[i])) =>
        /\ error = "none"
        /\ (pc = "plotted" /\ plot.view = "main") =>
               plot.traces =
                   MainPlot(SelectSeq(df, GoodDate), DOMAIN plot.traces,
                            plot.section, plot.today).traces

IsSubstring(needle, hay) ==
    \E k \in 0..(Len(hay) - Len(needle)) :
        SubSeq(hay, k + 1, k + Len(needle)) = needle

\* C15: the section filter keeps a record if and only if the record has a
\* section label of which the filter string is, case ignored, a literal
\* substring; this for every filter string of the callers, the full section
\* names containing parentheses included.
C15_FilterIsLiteralSubstring ==
    (pc = "plotted" /\ plot.section # "All Sections") =>
        LET literal(r) ==
                /\ r.jp_section.kind = "str"
                /\ IsSubstring(lower(plot.section_filter),
                               lower(r.jp_section.s))
        IN plot.rows = SelectSeq(df, literal)

\* C17 (as stated): the weeks and cumulative that create_main_plot and
\* create_interactive_plot build in their loop, before any truncation, are
\* identical to those create_weekly_cumulative returns for the same records
\* and academic year.
C17_SameSeriesInEveryConsumer ==
    pc = "plotted" =>
        \A y \in DOMAIN plot.traces :
            LET data == create_weekly_cumulative(plot.rows)[y]
            IN /\ plot.traces[y].loop_weeks = data.weeks
               /\ plot.traces[y].loop_cumulative = data.cumulative

\* C17 (amended): create_interactive_plot builds the weeks 30..57 and the
\* cumulative of create_weekly_cumulative; create_main_plot builds the weeks
\* 30..53 only, and its cumulative is the first 24 values of
\* create_weekly_cumulative's.
C17_SameSeriesThroughWeek53 ==
    pc = "plotted" =>
        \A y \in DOMAIN plot.traces :
            LET data == create_weekly_cumulative(plot.rows)[y]
                trace == plot.traces[y]
            IN IF plot.view = "web"
               THEN /\ trace.loop_weeks = data.weeks
                    /\ trace.loop_cumulative = data.cumulative
               ELSE /\ trace.loop_weeks = [i \in 1..24 |-> 29 + i]
                    /\ trace.loop_cumulative = SubSeq(data.cumulative, 1, 24)

C17_Witness ==
    /\ pc = "plotted"
    /\ plot.view = "main"
    /\ 2025 \in DOMAIN plot.traces
    /\ Len(plot.traces[2025].loop_weeks) = 24
    /\ plot.traces[2025].loop_cumulative[24] = 4

\* C20: in create_main_plot the year treated as current (cut to the completed
\* weeks, labelled "(current)") is, whatever today's date, the academic year
\* that holds today: today.year from August on, today.year - 1 before; no
\* other selected year is cut.
C20_CurrentYearHoldsToday ==
    (pc = "plotted" /\ plot.view = "main") =>
        \A y \in DOMAIN plot.traces :
            LET holds_today ==
                    y = IF plot.today[2] >= 8 THEN plot.today[1]
                        ELSE plot.today[1] - 1
            IN /\ plot.traces[y].current <=> holds_today
               /\ ~holds_today => Len(plot.traces[y].weeks) = 24

----------------------------------------------------------------------------
(* update_current_year.py: update_current_year_only *)

\* current_date.year if current_date.month >= 7 else current_date.year - 1
CurrentYear(date) == IF date[2] >= 7 THEN date[1] ELSE date[1] - 1

\* json.load of joe_data.json; {} when the file is absent or unreadable
LoadExisting(file) == IF file.kind = "json" THEN file.data ELSE None

\* existing_data['sections'] after "if 'sections' not in existing_data"
ExistingSections(data) ==
    IF "sections" \in DOMAIN data THEN data.sections ELSE None

\* Variant of MergeCurrentYear: every year of the new data is copied.
MergeEveryYear(sections, new_sections, year) ==
    [k \in DOMAIN sections \cup DOMAIN new_sections |->
        LET old == IF k \in DOMAIN sections THEN sections[k] ELSE None
            new == IF k \in DOMAIN new_sections THEN new_sections[k] ELSE None
        IN [y \in DOMAIN old \cup DOMAIN new |->
               IF y \in DOMAIN new THEN new[y] ELSE old[y]]]

\* for section_name, section_data in new_data.get('sections', {}).items():
\* the years are the keys str(year), written here as the year itself
MergeCurrentYear(sections, new_sections, year) ==
    [k \in DOMAIN sections \cup DOMAIN new_sections |->
        LET old == IF k \in DOMAIN sections THEN sections[k] ELSE None
        IN IF k \in DOMAIN new_sections /\ year \in DOMAIN new_sections[k]
           THEN [y \in DOMAIN old \cup {year} |->
                    IF y = year THEN new_sections[k][year] ELSE old[y]]
           ELSE old]

RECURSIVE SumYears(_, _)
SumYears(section_data, years) ==
    IF years = {} THEN 0
    ELSE LET y == CHOOSE x \in years : TRUE
         IN section_data[y].postings + SumYears(section_data, years \ {y})

\* total_postings: the sum of 'postings' over every section and year
RECURSIVE SumSections(_, _)
SumSections(sections, keys) ==
    IF keys = {} THEN 0
    ELSE LET k == CHOOSE x \in keys : TRUE
         IN SumYears(sections[k], DOMAIN sections[k])
              + SumSections(sections, keys \ {k})

\* The dict update_current_year_only writes to joe_data.json
MergedData(existing, new_data, year) ==
    LET merged == MergeCurrentYear(ExistingSections(existing),
                                   new_data.sections, year)
    IN [metadata |-> [total_postings |-> SumSections(merged, DOMAIN merged),
                      date_range |-> new_data.metadata.date_range],
        sections |-> merged]

MaxUpdateRows == 2

\* The rows of the Excel files present when the update runs
UpdateRows ==
    {SectionRow(Text(T_x), d, l) :
        d \in {<<2024, 9, 15>>, <<2025, 7, 15>>, <<2025, 9, 16>>},
        l \in {Text(L_us_full), Text(L_nonacademic)}}

\* The days on which the update runs
UpdateDates ==
    {<<2025, 6, 30>>, <<2025, 7, 15>>, <<2025, 8, 1>>, <<2026, 1, 14>>}

\* What joe_data.json holds before the update: nothing, a file that does
\* not parse, or what generate_data_json wrote for earlier Excel files
ExistingFiles ==
    {[kind |-> "absent"], [kind |-> "corrupt"],
     [kind |-> "json",
      data |-> DataJson(WithPositionCount(
                  <<SectionRow(Text(T_x), <<2024, 9, 15>>, Text(L_us_full))>>))],
     [kind |-> "json",
      data |-> DataJson(WithPositionCount(
                  <<SectionRow(Text(T_several), <<2025, 9, 16>>, Text(L_us_full)),
                    SectionRow(Text(T_x), <<2024, 9, 15>>, Text(L_nonacademic))>>))]}

\* pd.read_excel / pd.concat: one more row
ReadUpdateRow ==
    /\ pc = "read"
    /\ found
    /\ Len(df) < MaxUpdateRows
    /\ \E r \in UpdateRows : df' = Append(df, r)
    /\ UNCHANGED <<pc, title, body, body2, count, count2, weekly_data,
                   found, error, site, plot, later_vars>>

\* update_current_year_only(); an exception of generate_data_json ends it
\* before joe_data.json is opened for writing
update_current_year_only ==
    /\ pc = "read"
    /\ existing_data' = LoadExisting(joe_data)
    /\ \E out \in ProcessXls(found, df) :
          /\ error' = out.error
          /\ IF out.error = "none"
             THEN /\ site' = DataJson(out.df)
                  /\ current_year' = CurrentYear(current_date)
                  /\ joe_data' = [kind |-> "json",
                                  data |-> MergedData(existing_data', site',
                                                      current_year')]
                  /\ pc' = "updated"
             ELSE /\ UNCHANGED <<site, current_year, joe_data>>
                  /\ pc' = "raised"
    /\ UNCHANGED <<title, body, body2, count, count2, df, weekly_data,
                   found, plot, current_date, monitor_vars, updater_vars,
                   scraper_vars>>

InitUpdate ==
    /\ InitPipeline
    /\ joe_data \in ExistingFiles
    /\ existing_data = None
    /\ current_date \in UpdateDates
    /\ current_year = 0
    /\ InitMonitorVars
    /\ InitUpdaterVars
    /\ InitScraperVars

NextUpdate ==
    \/ ReadUpdateRow
    \/ update_current_year_only

SpecUpdate == InitUpdate /\ [][NextUpdate]_vars

----------------------------------------------------------------------------
(* simple_joe_monitor.py: JOEDataMonitor *)

MaxChecks == 2

\* The names a file of joe_data/ can have, and the contents it can have; a
\* content is written as its md5 digest (get_file_hash)
ExcelNames == {"a.xlsx", "b.xls"}
OtherNames == {"notes.csv"}
Contents == {"d41d", "9e10"}

\* self.data_dir.glob("*.xlsx") + self.data_dir.glob("*.xls")
ExcelFiles(dir) ==
    LET matched == {n \in DOMAIN dir : n \in ExcelNames}
    IN [n \in matched |-> dir[n]]

\* load_state(): the file, or the default state when there is none
load_state(file) ==
    IF file.exists
    THEN [file_hashes |-> file.file_hashes, last_update |-> file.last_update]
    ELSE [file_hashes |-> None, last_update |-> FALSE]

\* Variant of HasChanges: the loop over removed files is left out.
HasChangesAddedOrModified(stored, current) ==
    \E n \in DOMAIN current : n \notin DOMAIN stored \/ stored[n] # current[n]

\* has_changes after the two loops of check_for_updates
HasChanges(stored, current) ==
    \/ \E n \in DOMAIN current :
          n \notin DOMAIN stored \/ stored[n] # current[n]
    \/ \E n \in DOMAIN stored : n \notin DOMAIN current

\* A file of joe_data/ is created or gets another content
WriteFile ==
    /\ \E n \in ExcelNames \cup OtherNames, c \in Contents :
          /\ n \in DOMAIN files => files[n] # c
          /\ files' = [m \in DOMAIN files \cup {n} |->
                          IF m = n THEN c ELSE files[m]]
    /\ checks' = 0
    /\ pc' = "changed"
    /\ UNCHANGED <<title, body, body2, count, count2, df, weekly_data,
                   found, error, site, plot, update_vars, monitor_state,
                   state, current_hashes, has_changes, updater_vars,
                   scraper_vars>>

\* A file of joe_data/ is deleted
RemoveFile ==
    /\ \E n \in DOMAIN files :
          files' = [m \in DOMAIN files \ {n} |-> files[m]]
    /\ checks' = 0
    /\ pc' = "changed"
    /\ UNCHANGED <<title, body, body2, count, count2, df, weekly_data,
                   found, error, site, plot, update_vars, monitor_state,
                   state, current_hashes, has_changes, updater_vars,
                   scraper_vars>>

\* JOEDataMonitor.check_for_updates()
check_for_updates ==
    /\ checks < MaxChecks
    /\ state' = load_state(monitor_state)
    /\ current_hashes' = ExcelFiles(files)
    /\ has_changes' = HasChanges(state'.file_hashes, current_hashes')
    /\ monitor_state' =
          IF has_changes'
          THEN [exists |-> TRUE, file_hashes |-> current_hashes',
                last_update |-> state'.last_update]
          ELSE monitor_state
    /\ checks' = checks + 1
    /\ pc' = "checked"
    /\ UNCHANGED <<title, body, body2, count, count2, df, weekly_data,
                   found, error, site, plot, update_vars, files,
                   updater_vars, scraper_vars>>

\* JOEDataMonitor.update_visualization(): it returns early when the pipeline
\* gave no data or raised, and otherwise loads the state again and saves it
\* with last_update set
update_visualization ==
    /\ pc \in {"checked", "read"}
    /\ \E drawn \in BOOLEAN :
          monitor_state' =
             IF drawn
             THEN [exists |-> TRUE,
                   file_hashes |-> load_state(monitor_state).file_hashes,
                   last_update |-> TRUE]
             ELSE monitor_state
    /\ pc' = "visualized"
    /\ UNCHANGED <<title, body, body2, count, count2, df, weekly_data,
                   found, error, site, plot, update_vars, files, state,
                   current_hashes, has_changes, checks, updater_vars,
                   scraper_vars>>

NextMonitor ==
    \/ WriteFile
    \/ RemoveFile
    \/ check_for_updates
    \/ update_visualization

SpecMonitor == Init /\ [][NextMonitor]_vars

----------------------------------------------------------------------------
(* joe_daily_updater.py: JOEDataUpdater *)

\* timedelta(days=30)
HistoryDays == 30

MaxDay == 35
MaxHistory == 3

\* The days that can pass between two runs: the daily schedule, and a
\* machine that was off for a month
DaysBetweenRuns == {1, HistoryDays + 1}

\* load_metadata(): the file, or the default when there is none
load_metadata(file) ==
    IF file.exists
    THEN [last_update |-> file.last_update,
          update_history |-> file.update_history]
    ELSE [last_update |-> -1, update_history |-> <<>>]

\* [h for h in update_history if fromisoformat(h['timestamp']) > cutoff]
KeepLastDays(update_history, today) ==
    LET cutoff == today - HistoryDays
        recent(h) == h.timestamp > cutoff
    IN SelectSeq(update_history, recent)

\* The metadata run_update saves, by the way the cycle ended: a download and
\* processing that worked, no file downloaded, or an exception in between
RunUpdate(loaded, outcome, today) ==
    IF outcome = "success"
    THEN [exists |-> TRUE,
          last_update |-> today,
          update_history |->
             KeepLastDays(Append(loaded.update_history,
                                 [timestamp |-> today, status |-> "success"]),
                          today)]
    ELSE [exists |-> TRUE,
          last_update |-> loaded.last_update,
          update_history |->
             Append(loaded.update_history,
                    [timestamp |-> today, status |-> "failed"])]

\* JOEDataUpdater.run_update()
run_update ==
    /\ Len(metadata.update_history) < MaxHistory
    /\ \E outcome \in {"success", "no data downloaded", "exception"} :
          metadata' = RunUpdate(load_metadata(metadata), outcome, now)
    /\ pc' = "ran"
    /\ UNCHANGED <<title, body, body2, count, count2, df, weekly_data,
                   found, error, site, plot, update_vars, monitor_vars,
                   now, scraper_vars>>

\* Time passes until the next run
Wait ==
    /\ pc # "waiting"
    /\ \E days \in DaysBetweenRuns :
          /\ now + days <= MaxDay
          /\ now' = now + days
    /\ pc' = "waiting"
    /\ UNCHANGED <<title, body, body2, count, count2, df, weekly_data,
                   found, error, site, plot, update_vars, monitor_vars,
                   metadata, scraper_vars>>

NextUpdater ==
    \/ run_update
    \/ Wait

SpecUpdater == Init /\ [][NextUpdater]_vars

----------------------------------------------------------------------------
(* joe_working_scraper.py: JOEWorkingScraper.download_data *)

\* self.wait_for_download(timeout=60), in seconds
Timeout == 60

\* The names the browser gives the file: while it writes it, and when it
\* has finished
PartialName == "resultset.xls.crdownload"
CompleteName == "resultset.xls"

\* not file.name.startswith('.') and not file.name.endswith('.crdownload')
IsComplete(name) == name = CompleteName

\* set(self.temp_download_dir.glob("*.xls*")): both names match
GlobXls(dir) == DOMAIN dir

\* One pass of the loop of wait_for_download: the file it returns, None when
\* it goes on to sleep
FoundDownload(dir, existing, started) ==
    LET current_files == GlobXls(dir)
        new_files == current_files \ existing
        fresh == {f \in new_files : IsComplete(f)}
        grown == {f \in current_files : dir[f] > started /\ IsComplete(f)}
    IN IF fresh # {} THEN CHOOSE f \in fresh : TRUE
       ELSE IF grown # {} THEN CHOOSE f \in grown : TRUE
       ELSE "None"

\* native_xls_link.click(): the browser is asked for the file
click ==
    /\ pc = "read"
    /\ pc' = "clicked"
    /\ UNCHANGED <<title, body, body2, count, count2, df, weekly_data,
                   found, error, site, plot, update_vars, monitor_vars,
                   updater_vars, scraper_vars>>

\* The browser starts to write the file; the clock has moved on when the
\* next time is read
BrowserStart ==
    /\ pc \notin {"read", "saved"}
    /\ DOMAIN temp_download_dir = {}
    /\ downloaded_file \in {"none", "None"}
    /\ temp_download_dir' = [n \in {PartialName} |-> time]
    /\ time' = time + 1
    /\ UNCHANGED <<pc, title, body, body2, count, count2, df, weekly_data,
                   found, error, site, plot, update_vars, monitor_vars,
                   updater_vars, start_time, existing_files,
                   downloaded_file>>

\* The browser has written the whole file and renames it
BrowserFinish ==
    /\ PartialName \in DOMAIN temp_download_dir
    /\ temp_download_dir' = [n \in {CompleteName} |-> time]
    /\ time' = time + 1
    /\ UNCHANGED <<pc, title, body, body2, count, count2, df, weekly_data,
                   found, error, site, plot, update_vars, monitor_vars,
                   updater_vars, start_time, existing_files,
                   downloaded_file>>

\* wait_for_download: start_time = time.time()
TakeStartTime ==
    /\ pc = "clicked"
    /\ start_time' = time
    /\ time' = time + 1
    /\ pc' = "started"
    /\ UNCHANGED <<title, body, body2, count, count2, df, weekly_data,
                   found, error, site, plot, update_vars, monitor_vars,
                   updater_vars, temp_download_dir, existing_files,
                   downloaded_file>>

\* wait_for_download: existing_files = set(glob("*.xls*"))
TakeExistingFiles ==
    /\ pc = "started"
    /\ existing_files' = GlobXls(temp_download_dir)
    /\ pc' = "polling"
    /\ UNCHANGED <<title, body, body2, count, count2, df, weekly_data,
                   found, error, site, plot, update_vars, monitor_vars,
                   updater_vars, time, temp_download_dir, start_time,
                   downloaded_file>>

\* wait_for_download: one pass of the while loop, or its end
Poll ==
    /\ pc = "polling"
    /\ IF time - start_time < Timeout
       THEN LET file == FoundDownload(temp_download_dir, existing_files,
                                      start_time)
            IN IF file # "None"
               THEN downloaded_file' = file /\ pc' = "returned"
               ELSE downloaded_file' = downloaded_file /\ pc' = "sleeping"
       ELSE downloaded_file' = "None" /\ pc' = "timeout"
    /\ UNCHANGED <<title, body, body2, count, count2, df, weekly_data,
                   found, error, site, plot, update_vars, monitor_vars,
                   updater_vars, time, temp_download_dir, start_time,
                   existing_files>>

\* wait_for_download: time.sleep(1)
Sleep ==
    /\ pc = "sleeping"
    /\ time' = time + 1
    /\ pc' = "polling"
    /\ UNCHANGED <<title, body, body2, count, count2, df, weekly_data,
                   found, error, site, plot, update_vars, monitor_vars,
                   updater_vars, temp_download_dir, start_time,
                   existing_files, downloaded_file>>

\* download_data after wait_for_download returned a file: the file is moved
\* to its final path and the temp directory is emptied
SaveDownload ==
    /\ pc = "returned"
    /\ temp_download_dir' = <<>>
    /\ pc' = "saved"
    /\ UNCHANGED <<title, body, body2, count, count2, df, weekly_data,
                   found, error, site, plot, update_vars, monitor_vars,
                   updater_vars, time, start_time, existing_files,
                   downloaded_file>>

NextScraper ==
    \/ click
    \/ BrowserStart
    \/ BrowserFinish
    \/ TakeStartTime
    \/ TakeExistingFiles
    \/ Poll
    \/ Sleep
    \/ SaveDownload

SpecScraper == Init /\ [][NextScraper]_vars

----------------------------------------------------------------------------
(* Further properties of the series *)

\* C26: the truncation of generate_data_json never changes the totals: in
\* every emitted series, truncated or not, weeks and cumulative have the same
\* length, weeks is a prefix of 30..57 and the last value of cumulative is
\* the series' total.
C26_TruncationKeepsTotal ==
    pc = "returned" =>
        \A k \in DOMAIN site.sections :
            \A y \in DOMAIN site.sections[k] :
                LET s == site.sections[k][y]
                    n == Len(s.weeks)
                IN /\ Len(s.cumulative) = n
                   /\ n \in 1..28
                   /\ \A i \in 1..n : s.weeks[i] = 29 + i
                   /\ s.cumulative[n] = s.total

C26_Witness ==
    /\ pc = "returned"
    /\ "us_academic" \in DOMAIN site.sections
    /\ 2025 \in DOMAIN site.sections["us_academic"]
    /\ Len(site.sections["us_academic"][2025].weeks) = 16
    /\ site.sections["us_academic"][2025].cumulative[16] = 3
    /\ site.sections["us_academic"][2025].total = 3

\* C27: a record whose openings are added to the cumulative series of
\* academic year Y was posted on or after 1 August of Y, and is not a posting
\* of July of Y + 1 counted in the early weeks of Y's curve.
C27_NoJulyPostingInEarlyWeeks ==
    pc = "done" =>
        \A i \in 1..Len(df) :
            df[i].iso_week \in 30..57 =>
                LET d == df[i].Date_Active
                    Y == df[i].academic_year
                IN /\ Ordinal(d) >= Ordinal(<<Y, 8, 1>>)
                   /\ ~(d[1] = Y + 1 /\ d[2] = 7)

\* C28: no record is bucketed into weeks 54..57: in every series of
\* create_weekly_cumulative the cumulative values at weeks 53 to 57 all equal
\* total, and a posting of January of Y + 1 in ISO weeks 1..5 is not added to
\* the cumulative of academic year Y.
C28_NothingBeyondWeek53 ==
    pc = "done" =>
        /\ \A y \in DOMAIN weekly_data :
              \A k \in 24..28 : weekly_data[y].cumulative[k] = weekly_data[y].total
        /\ \A i \in 1..Len(df) :
              (df[i].Date_Active[2] = 1 /\ df[i].iso_week \in 1..5) =>
                  LET y == df[i].academic_year
                      rest == create_weekly_cumulative(Without(df, i))
                  IN /\ y = df[i].Date_Active[1] - 1
                     /\ weekly_data[y].cumulative =
                            IF y \in DOMAIN rest THEN rest[y].cumulative
                            ELSE [k \in 1..28 |-> 0]

C28_Witness ==
    /\ pc = "done"
    /\ Len(df) = 1
    /\ df[1].Date_Active = <<2025, 1, 15>>
    /\ df[1].iso_week = 3
    /\ weekly_data[2024].postings = 1
    /\ weekly_data[2024].total = 0

----------------------------------------------------------------------------
(* Properties of the update scripts *)

\* C21: the current academic year whose entries update_current_year_only
\* overwrites is, on every day it runs, the academic year analyze_date_fields
\* gives a posting dated that day.
C21_CurrentYearIsAcademicYear ==
    pc = "updated" => current_year = AcademicYearOf(current_date)

\* C22: update_current_year_only preserves historical data: every
\* (section, year) entry of the existing joe_data.json whose year is not the
\* current year is unchanged after the update, and no entry of another year
\* is added from the newly generated data.
C22_HistoricalDataPreserved ==
    pc = "updated" =>
        LET old == ExistingSections(existing_data)
            written == joe_data.data.sections
        IN /\ \A k \in DOMAIN old :
                \A y \in DOMAIN old[k] \ {current_year} :
                    /\ k \in DOMAIN written
                    /\ y \in DOMAIN written[k]
                    /\ written[k][y] = old[k][y]
           /\ \A k \in DOMAIN written :
                \A y \in DOMAIN written[k] \ {current_year} :
                    k \in DOMAIN old /\ y \in DOMAIN old[k]

C22_Witness ==
    /\ pc = "updated"
    /\ current_year = 2025
    /\ "us_academic" \in DOMAIN ExistingSections(existing_data)
    /\ DOMAIN existing_data.sections["us_academic"] = {2024}
    /\ "us_academic" \in DOMAIN site.sections
    /\ DOMAIN site.sections["us_academic"] = {2024, 2025}
    /\ site.sections["us_academic"][2024].total = 1
    /\ DOMAIN joe_data.data.sections["us_academic"] = {2024, 2025}
    /\ joe_data.data.sections["us_academic"][2024].total = 1
    /\ joe_data.data.sections["us_academic"][2025]
          = site.sections["us_academic"][2025]

\* Two mappings from file names to hashes are the same mapping
SameHashes(a, b) ==
    /\ DOMAIN a = DOMAIN b
    /\ \A n \in DOMAIN a : a[n] = b[n]

\* C23: check_for_updates returns True exactly when the Excel files of the
\* data directory or the hash of one of them differ from the stored state;
\* it then stores the current hashes, so that a second check with no change
\* of the files in between returns False.
C23_ChangeDetectedExactly ==
    pc = "checked" =>
        /\ SameHashes(current_hashes, ExcelFiles(files))
        /\ has_changes <=> ~SameHashes(state.file_hashes, current_hashes)
        /\ SameHashes(monitor_state.file_hashes, current_hashes)
        /\ checks >= 2 => ~has_changes

C23_Witness ==
    /\ pc = "checked"
    /\ checks = 2
    /\ ~has_changes
    /\ DOMAIN files = {"a.xlsx", "notes.csv"}
    /\ DOMAIN state.file_hashes = {"a.xlsx"}
    /\ monitor_state.last_update

\* C24: after every run_update, whether it ended in success, in a failed
\* download or in an exception, the update_history of metadata.json holds
\* no entry whose timestamp is older than 30 days.
C24_HistoryWithinThirtyDays ==
    pc = "ran" =>
        \A i \in 1..Len(metadata.update_history) :
            metadata.update_history[i].timestamp >= now - HistoryDays

\* C25: if the browser finishes writing the file into the temp directory at
\* any moment after the download click and before the timeout, including
\* before wait_for_download took its start time and its snapshot of the
\* existing files, wait_for_download returns the file and download_data
\* reports no timeout.
C25_FinishedDownloadIsReturned ==
    pc = "timeout" =>
        ~(/\ CompleteName \in DOMAIN temp_download_dir
          /\ temp_download_dir[CompleteName] < start_time + Timeout)

====
